---------------------------- MODULE Spec2Model ----------------------------
(* User-management web application (app.py): request handlers over the     *)
(* data access layer db_query / db_execute and the table public.usuarios.   *)
(* Text values are sequences of one-character strings, so that strip(),     *)
(* lower() and ILIKE are computed character by character.                   *)
EXTENDS Integers, Sequences, FiniteSets, TLC

(* ------------------------------ bounds ---------------------------------- *)
\* Number of requests the server receives in a run, one at a time.
MaxRequests == 3
\* Number of requests the server receives in a run when it handles them
\* concurrently.
MaxConcurrent == 2
\* Largest id a request names in its URL.
MaxId == 2
\* max_size of the connection pool.
PoolMaxSize == 5

\* The clients whose requests the server handles: a request of one client can
\* overlap a request of the other.
Clients == {1, 2}

(* ------------------------------ text ------------------------------------ *)
\* Python's None: a request field that is absent.
None == <<"None">>

NomeInputs  == {None, <<" ">>, <<"a">>}
EmailInputs == {<<>>, <<"b">>, <<"B">>}
SenhaInputs == {None, <<"p">>}
QInputs     == {None, <<" ">>, <<"a">>, <<"B", " ">>, <<"_">>}
IdInputs    == 1..MaxId
\* The fields of the requests that run concurrently.
RaceNome    == <<"a">>
RaceEmails  == {<<"b">>, <<"B">>}

\* `x or ""`
OrEmpty(x) == IF x = None THEN <<>> ELSE x

\* bool(x) of a request field: None and "" are falsy
Truthy(x) == x # None /\ x # <<>>

RECURSIVE LStrip(_)
LStrip(s) == IF s # <<>> /\ Head(s) = " " THEN LStrip(Tail(s)) ELSE s

RECURSIVE RStrip(_)
RStrip(s) ==
    IF s # <<>> /\ s[Len(s)] = " " THEN RStrip(SubSeq(s, 1, Len(s) - 1)) ELSE s

\* str.strip()
Strip(s) == RStrip(LStrip(s))

LowerChar(c) == CASE c = "A" -> "a" [] c = "B" -> "b" [] c = "P" -> "p" [] OTHER -> c

\* str.lower()
Lower(s) == [i \in 1..Len(s) |-> LowerChar(s[i])]

\* s LIKE p, compared case-insensitively (ILIKE): % matches any run of
\* characters, _ matches exactly one character.
RECURSIVE LikeMatch(_, _)
LikeMatch(s, p) ==
    IF p = <<>> THEN s = <<>>
    ELSE IF Head(p) = "%"
         THEN LikeMatch(s, Tail(p)) \/ (s # <<>> /\ LikeMatch(Tail(s), p))
    ELSE IF Head(p) = "_"
         THEN s # <<>> /\ LikeMatch(Tail(s), Tail(p))
    ELSE s # <<>> /\ LowerChar(Head(s)) = LowerChar(Head(p))
                  /\ LikeMatch(Tail(s), Tail(p))

\* like = f"%{q}%"
LikePattern(q) == <<"%">> \o q \o <<"%">>

(* ------------------------------ store ----------------------------------- *)
\* bcrypt.hashpw(plain, salt): the stored string embeds the salt and the digest.
HashPassword(plain, salt) == [salt |-> salt, digest |-> plain]

NoHash == [salt |-> 0, digest |-> <<>>]
NoRow  == [id |-> 0, nome |-> <<>>, email |-> <<>>, senha |-> NoHash]
NoWrite == [op |-> "none", old |-> NoRow, row |-> NoRow]

\* A parameterized SQL statement as a handler hands it to db_query / db_execute.
Stmt(sql, id, nome, email, setSenha, senha, q) ==
    [sql |-> sql, id |-> id, nome |-> nome, email |-> email,
     setSenha |-> setSenha, senha |-> senha, q |-> q]

NoStmt == Stmt("none", 0, <<>>, <<>>, FALSE, NoHash, <<>>)

\* SELECT id, nome, email: the columns a listing returns.
Project(u) == [id |-> u.id, nome |-> u.nome, email |-> u.email]

\* ORDER BY id ASC
RECURSIVE OrderById(_)
OrderById(S) ==
    IF S = {} THEN <<>>
    ELSE LET m == CHOOSE x \in S : \A y \in S : x.id <= y.id
         IN  <<Project(m)>> \o OrderById(S \ {m})

\* WHERE nome ILIKE %s OR email ILIKE %s
WhereLike(u, like) == LikeMatch(u.nome, like) \/ LikeMatch(u.email, like)

\* The rows a read statement returns on the committed table.
SqlSelect(tbl, st) ==
    CASE st.sql = "select1" -> <<[ok |-> 1]>>
      [] st.sql = "version" -> <<[version |-> "PostgreSQL"]>>
      [] st.sql = "all"     -> OrderById(tbl)
      [] st.sql = "like"    -> OrderById({u \in tbl : WhereLike(u, st.q)})
      [] st.sql = "byid"    -> OrderById({u \in tbl : u.id = st.id})

\* id serial: the next value of the id sequence; a value is never handed out
\* twice, also when the insert that drew it fails.
NextVal(s) == s + 1

\* The unique constraint on usuarios.email: another row holds this email.
UniqueViolation(tbl, id, email) == \E u \in tbl : u.id # id /\ u.email = email

\* SET nome = %s, email = %s [, senha = %s]
SetClause(old, st) ==
    [id |-> old.id, nome |-> st.nome, email |-> st.email,
     senha |-> IF st.setSenha THEN st.senha ELSE old.senha]

\* The effect of a mutating statement inside its transaction: whether it
\* raises UniqueViolation, the rows of RETURNING, and the uncommitted write.
SqlWrite(tbl, nextId, st) ==
    LET hit == {u \in tbl : u.id = st.id}
        old == IF hit = {} THEN NoRow ELSE CHOOSE u \in hit : TRUE
    IN
    CASE st.sql = "insert" ->
           LET row == [id |-> nextId, nome |-> st.nome, email |-> st.email,
                       senha |-> st.senha]
           IN  IF UniqueViolation(tbl, nextId, st.email)
               THEN [violation |-> TRUE, rows |-> <<>>, write |-> NoWrite]
               ELSE [violation |-> FALSE, rows |-> <<Project(row)>>,
                     write |-> [op |-> "ins", old |-> NoRow, row |-> row]]
      [] st.sql = "update" ->
           IF hit = {}
           THEN [violation |-> FALSE, rows |-> <<>>, write |-> NoWrite]
           ELSE IF UniqueViolation(tbl, st.id, st.email)
           THEN [violation |-> TRUE, rows |-> <<>>, write |-> NoWrite]
           ELSE [violation |-> FALSE, rows |-> <<[id |-> st.id]>>,
                 write |-> [op |-> "upd", old |-> old,
                            row |-> SetClause(old, st)]]
      [] st.sql = "delete" ->
           IF hit = {}
           THEN [violation |-> FALSE, rows |-> <<>>, write |-> NoWrite]
           ELSE [violation |-> FALSE, rows |-> <<[id |-> st.id]>>,
                 write |-> [op |-> "del", old |-> old, row |-> NoRow]]

\* Mutant of ApplyWrite: the commit is lost.
ApplyWriteLost(tbl, w) == tbl

\* conn.commit(): the transaction's write becomes part of the table.
ApplyWrite(tbl, w) ==
    CASE w.op = "ins"  -> tbl \cup {w.row}
      [] w.op = "upd"  -> (tbl \ {w.old}) \cup {w.row}
      [] w.op = "del"  -> tbl \ {w.old}
      [] OTHER         -> tbl

(* ------------------------------ state ----------------------------------- *)
VARIABLES
    table,     \* committed rows of public.usuarios
    seq,       \* last value handed out by the id sequence
    saltCtr,   \* number of salts bcrypt.gensalt() has produced
    hasPool,   \* HAS_POOL
    started,   \* number of requests received so far
    everIds,   \* every id a committed row has had so far
    conns,     \* per client: the connection its request holds
    req        \* per client: the request being handled

vars == <<table, seq, saltCtr, hasPool, started, everIds, conns, req>>

\* A request before any handler ran.
IdleReq ==
    [kind |-> "none", pc |-> "idle", nome |-> None, email |-> None,
     senha |-> None, uid |-> 0, q |-> None, stmt |-> NoStmt,
     t0 |-> {}, ids0 |-> {}, rows |-> <<>>, pending |-> NoWrite, outcome |-> "none",
     stmts |-> 0, raised |-> "none", committed |-> FALSE]

Init ==
    /\ table = {}
    /\ seq = 0
    /\ saltCtr = 0
    /\ hasPool \in BOOLEAN
    /\ started = 0
    /\ everIds = {u.id : u \in table}
    /\ conns = [c \in Clients |-> "none"]
    /\ req = [c \in Clients |-> IdleReq]


(* ------------------------------ handlers -------------------------------- *)
\* Mutant of CreateApiValid: the email is not checked.
CreateApiValidNoEmail(nome, email, senha) == Truthy(nome) /\ Truthy(senha)

\* if not all([nome, email, senha])
CreateApiValid(nome, email, senha) == Truthy(nome) /\ Truthy(email) /\ Truthy(senha)

\* (request.form.get("nome") or "").strip()
FormNome(raw) == Strip(OrEmpty(raw))

\* Mutant of FormEmail: the email is not lowercased.
FormEmailNoLower(raw) == Strip(OrEmpty(raw))

\* (request.form.get("email") or "").strip().lower()
FormEmail(raw) == Lower(Strip(OrEmpty(raw)))

\* request.form.get("senha") or ""
FormSenha(raw) == OrEmpty(raw)

\* if not nome or not email or not senha
CreateFormValid(nome, email, senha) == nome # <<>> /\ email # <<>> /\ senha # <<>>

\* if not nome or not email
EditValid(nome, email) == nome # <<>> /\ email # <<>>

\* Mutant of EditSetsSenha: the password column is always set.
EditSetsSenhaAlways(senha) == TRUE

\* if senha: sets.append("senha = %s")
EditSetsSenha(senha) == senha # <<>>

\* q = (request.args.get("q") or "").strip()
PageQ(raw) == Strip(OrEmpty(raw))

\* Mutant of Respond: edit and delete do not look at the rows RETURNING gave.
RespondNoRowCheck(kind, rows) ==
    CASE kind = "users_edit_post" -> "flash_updated"
      [] kind = "users_delete"    -> "flash_deleted"
      [] kind = "users_edit_form" ->
             IF rows = <<>> THEN "flash_notfound" ELSE "form200"
      [] kind = "create_user_api" -> IF rows = <<>> THEN "error500" ELSE "created201"
      [] kind = "users_create_from_form" -> "flash_created"
      [] kind = "users_page"      -> "page200"
      [] kind = "list_users_api"  -> "ok200"
      [] OTHER -> IF rows = <<>> THEN "error500" ELSE "ok200"

\* What a handler answers once its db call returned rows.
Respond(kind, rows) ==
    CASE kind = "health"         -> IF rows = <<>> THEN "error500" ELSE "ok200"
      [] kind = "db_version"     -> IF rows = <<>> THEN "error500" ELSE "ok200"
      [] kind = "list_users_api" -> "ok200"
      [] kind = "create_user_api" -> IF rows = <<>> THEN "error500" ELSE "created201"
      [] kind = "users_create_from_form" -> "flash_created"
      [] kind = "users_page"     -> "page200"
      [] kind = "users_edit_form" ->
             IF rows = <<>> THEN "flash_notfound" ELSE "form200"
      [] kind = "users_edit_post" ->
             IF rows = <<>> THEN "flash_notfound" ELSE "flash_updated"
      [] kind = "users_delete"   ->
             IF rows = <<>> THEN "flash_notfound" ELSE "flash_deleted"

\* Mutant of ExceptException: /health answers its default when the probe fails.
ExceptExceptionDefault(kind) ==
    CASE kind = "health" -> "ok200"
      [] kind \in {"db_version", "list_users_api", "create_user_api"}
             -> "error500"
      [] kind \in {"users_create_from_form", "users_edit_post", "users_delete"}
             -> "flash_error"
      [] OTHER -> "unhandled500"

\* What a handler answers when its db call raises something other than
\* UniqueViolation (users_page and users_edit_form have no try block).
ExceptException(kind) ==
    CASE kind \in {"health", "db_version", "list_users_api", "create_user_api"}
             -> "error500"
      [] kind \in {"users_create_from_form", "users_edit_post", "users_delete"}
             -> "flash_error"
      [] OTHER -> "unhandled500"

\* Mutant of ExceptUniqueViolation: no handler catches UniqueViolation apart.
ExceptUniqueViolationUncaught(kind) == ExceptException(kind)

\* What a handler answers when its db call raises UniqueViolation.
ExceptUniqueViolation(kind) ==
    CASE kind = "create_user_api"        -> "conflict409"
      [] kind = "users_create_from_form" -> "flash_conflict"
      [] kind = "users_edit_post"        -> "flash_conflict"
      [] OTHER                           -> ExceptException(kind)

\* The request a handler starts with: its raw inputs and the table it finds.
Begin(kind, nome, email, senha, uid, q) ==
    [IdleReq EXCEPT !.kind = kind, !.nome = nome, !.email = email,
                    !.senha = senha, !.uid = uid, !.q = q, !.t0 = table,
                    !.ids0 = everIds]

\* The handler returns without calling the data access layer.
Return(r, outcome) == [r EXCEPT !.pc = "done", !.outcome = outcome]

\* The handler calls db_query / db_execute with a statement.
Call(r, st) == [r EXCEPT !.pc = "exec", !.stmt = st]

Ready(c) == req[c].pc \in {"idle", "done"}

\* _conn(): a pool connection when HAS_POOL, else a direct connection.
Connect(cs, c) == [cs EXCEPT ![c] = IF hasPool THEN "pool" ELSE "direct"]

\* Mutant of Release: the connection is kept.
ReleaseLeak(cs, c) == cs

\* Leaving `with _conn() as conn`: the connection goes back to the pool, or
\* is closed.
Release(cs, c) == [cs EXCEPT ![c] = "none"]

\* The block raised: the transaction is rolled back and the error reaches the
\* handler's except clauses.
Raise(r, exc) ==
    [r EXCEPT !.pc = "done", !.raised = exc, !.pending = NoWrite,
              !.outcome = IF exc = "UniqueViolation"
                          THEN ExceptUniqueViolation(r.kind)
                          ELSE ExceptException(r.kind)]

\* db_query / db_execute entering `with _conn() as conn`: the request gets a
\* connection, or _conn() raises (pool timeout, server unreachable).
DbAcquire(c, r, st) ==
    \/ /\ hasPool => Cardinality({d \in Clients : conns[d] = "pool"}) < PoolMaxSize
       /\ conns' = Connect(conns, c)
       /\ req' = [req EXCEPT ![c] = Call(r, st)]
    \/ /\ req' = [req EXCEPT ![c] = Raise(Call(r, st), "OperationalError")]
       /\ UNCHANGED conns

ReadStmt(sql, id, q) == Stmt(sql, id, <<>>, <<>>, FALSE, NoHash, q)

Health(c) ==
    /\ Ready(c)
    /\ started' = started + 1
    /\ DbAcquire(c, Begin("health", None, None, None, 0, None), ReadStmt("select1", 0, <<>>))
    /\ UNCHANGED <<table, seq, saltCtr, hasPool, everIds>>

DbVersion(c) ==
    /\ Ready(c)
    /\ started' = started + 1
    /\ DbAcquire(c, Begin("db_version", None, None, None, 0, None), ReadStmt("version", 0, <<>>))
    /\ UNCHANGED <<table, seq, saltCtr, hasPool, everIds>>

ListUsersApi(c) ==
    /\ Ready(c)
    /\ started' = started + 1
    /\ DbAcquire(c, Begin("list_users_api", None, None, None, 0, None), ReadStmt("all", 0, <<>>))
    /\ UNCHANGED <<table, seq, saltCtr, hasPool, everIds>>

CreateUserApi(c, nome, email, senha) ==
    /\ Ready(c)
    /\ started' = started + 1
    /\ LET r == Begin("create_user_api", nome, email, senha, 0, None) IN
       IF ~CreateApiValid(nome, email, senha)
       THEN /\ req' = [req EXCEPT ![c] = Return(r, "bad400")]
            /\ UNCHANGED <<saltCtr, conns>>
       ELSE /\ saltCtr' = saltCtr + 1
            /\ DbAcquire(c, r, Stmt("insert", 0, nome, email, TRUE,
                                    HashPassword(senha, saltCtr + 1), <<>>))
    /\ UNCHANGED <<table, seq, hasPool, everIds>>

UsersCreateFromForm(c, rnome, remail, rsenha) ==
    /\ Ready(c)
    /\ started' = started + 1
    /\ LET r     == Begin("users_create_from_form", rnome, remail, rsenha, 0, None)
           nome  == FormNome(rnome)
           email == FormEmail(remail)
           senha == FormSenha(rsenha)
       IN
       IF ~CreateFormValid(nome, email, senha)
       THEN /\ req' = [req EXCEPT ![c] = Return(r, "flash_invalid")]
            /\ UNCHANGED <<saltCtr, conns>>
       ELSE /\ saltCtr' = saltCtr + 1
            /\ DbAcquire(c, r, Stmt("insert", 0, nome, email, TRUE,
                                    HashPassword(senha, saltCtr + 1), <<>>))
    /\ UNCHANGED <<table, seq, hasPool, everIds>>

UsersPage(c, rq) ==
    /\ Ready(c)
    /\ started' = started + 1
    /\ LET r == Begin("users_page", None, None, None, 0, rq)
           q == PageQ(rq)
       IN  IF q # <<>>
           THEN DbAcquire(c, r, ReadStmt("like", 0, LikePattern(q)))
           ELSE DbAcquire(c, r, ReadStmt("all", 0, <<>>))
    /\ UNCHANGED <<table, seq, saltCtr, hasPool, everIds>>

UsersEditForm(c, uid) ==
    /\ Ready(c)
    /\ started' = started + 1
    /\ DbAcquire(c, Begin("users_edit_form", None, None, None, uid, None),
                 ReadStmt("byid", uid, <<>>))
    /\ UNCHANGED <<table, seq, saltCtr, hasPool, everIds>>

UsersEditPost(c, uid, rnome, remail, rsenha) ==
    /\ Ready(c)
    /\ started' = started + 1
    /\ LET r     == Begin("users_edit_post", rnome, remail, rsenha, uid, None)
           nome  == FormNome(rnome)
           email == FormEmail(remail)
           senha == FormSenha(rsenha)
       IN
       IF ~EditValid(nome, email)
       THEN /\ req' = [req EXCEPT ![c] = Return(r, "flash_invalid")]
            /\ UNCHANGED <<saltCtr, conns>>
       ELSE IF EditSetsSenha(senha)
       THEN /\ saltCtr' = saltCtr + 1
            /\ DbAcquire(c, r, Stmt("update", uid, nome, email, TRUE,
                                    HashPassword(senha, saltCtr + 1), <<>>))
       ELSE /\ UNCHANGED saltCtr
            /\ DbAcquire(c, r, Stmt("update", uid, nome, email, FALSE,
                                    NoHash, <<>>))
    /\ UNCHANGED <<table, seq, hasPool, everIds>>

UsersDelete(c, uid) ==
    /\ Ready(c)
    /\ started' = started + 1
    /\ DbAcquire(c, Begin("users_delete", None, None, None, uid, None),
                 Stmt("delete", uid, <<>>, <<>>, FALSE, NoHash, <<>>))
    /\ UNCHANGED <<table, seq, saltCtr, hasPool, everIds>>

(* ------------------------------ data access layer ----------------------- *)
ReadSql  == {"select1", "version", "all", "like", "byid"}
WriteSql == {"insert", "update", "delete"}

\* Rows and emails that the uncommitted writes of the other requests lock.
LockedIds(c) ==
    {req[d].pending.old.id : d \in {e \in Clients \ {c} :
                                      req[e].pending.op \in {"upd", "del"}}}

LockedEmails(c) ==
    {req[d].pending.old.email : d \in {e \in Clients \ {c} :
                                         req[e].pending.op \in {"upd", "del"}}}
    \cup
    {req[d].pending.row.email : d \in {e \in Clients \ {c} :
                                         req[e].pending.op \in {"ins", "upd"}}}

\* The statement waits for another transaction to end.
Blocked(c) ==
    LET st == req[c].stmt IN
    \/ st.sql \in {"update", "delete"} /\ st.id \in LockedIds(c)
    \/ st.sql = "insert" /\ st.email \in LockedEmails(c)
    \/ /\ st.sql = "update"
       /\ st.email \in LockedEmails(c)
       /\ \E u \in table : u.id = st.id /\ u.email # st.email

\* db_query: cur.execute, cur.fetchall, leaving both with blocks.
DbQuery(c) ==
    /\ req[c].pc = "exec"
    /\ req[c].stmt.sql \in ReadSql
    /\ \/ LET rows == SqlSelect(table, req[c].stmt) IN
          req' = [req EXCEPT ![c] =
                    [req[c] EXCEPT !.pc = "done", !.rows = rows,
                                   !.stmts = @ + 1,
                                   !.outcome = Respond(req[c].kind, rows)]]
       \/ req' = [req EXCEPT ![c] =
                    Raise([req[c] EXCEPT !.stmts = @ + 1], "OperationalError")]
    /\ conns' = Release(conns, c)
    /\ UNCHANGED <<table, seq, saltCtr, hasPool, started, everIds>>

\* db_execute up to rows = cur.fetchall(): the statement runs in the
\* connection's transaction.
DbExecuteRun(c) ==
    /\ req[c].pc = "exec"
    /\ req[c].stmt.sql \in WriteSql
    /\ \/ /\ ~Blocked(c)
          /\ seq' = IF req[c].stmt.sql = "insert" THEN NextVal(seq) ELSE seq
          /\ LET res == SqlWrite(table, NextVal(seq), req[c].stmt) IN
             IF res.violation
             THEN /\ req' = [req EXCEPT ![c] =
                               Raise([req[c] EXCEPT !.stmts = @ + 1],
                                     "UniqueViolation")]
                  /\ conns' = Release(conns, c)
             ELSE /\ req' = [req EXCEPT ![c] =
                               [req[c] EXCEPT !.pc = "commit", !.rows = res.rows,
                                              !.stmts = @ + 1,
                                              !.pending = res.write]]
                  /\ UNCHANGED conns
       \/ /\ req' = [req EXCEPT ![c] =
                       Raise([req[c] EXCEPT !.stmts = @ + 1], "OperationalError")]
          /\ conns' = Release(conns, c)
          /\ UNCHANGED seq
    /\ UNCHANGED <<table, saltCtr, hasPool, started, everIds>>

\* db_execute from conn.commit() to return rows, and the handler's answer.
DbExecuteCommit(c) ==
    /\ req[c].pc = "commit"
    /\ \/ /\ table' = ApplyWrite(table, req[c].pending)
          /\ req' = [req EXCEPT ![c] =
                       [req[c] EXCEPT !.pc = "done", !.pending = NoWrite,
                                      !.committed = TRUE,
                                      !.outcome = Respond(req[c].kind, req[c].rows)]]
       \/ /\ req' = [req EXCEPT ![c] = Raise(req[c], "OperationalError")]
          /\ UNCHANGED table
    /\ everIds' = everIds \cup {u.id : u \in table'}
    /\ conns' = Release(conns, c)
    /\ UNCHANGED <<seq, saltCtr, hasPool, started>>

(* ------------------------------ specification --------------------------- *)
\* No other request is being handled.
Alone(c) == \A d \in Clients \ {c} : req[d].pc = "idle"

\* One request at a time: a request starts when no other client has one, and
\* MaxRequests of them start.
Serial(c) == Alone(c) /\ (Ready(c) => started < MaxRequests)

\* Requests of different clients overlap, and MaxConcurrent of them start.
Overlap(c) == Ready(c) => started < MaxConcurrent

Next ==
    \E c \in Clients :
        \/ Serial(c) /\ Health(c)
        \/ Serial(c) /\ DbVersion(c)
        \/ Serial(c) /\ ListUsersApi(c)
        \/ Serial(c) /\ \E nome \in NomeInputs, email \in EmailInputs,
                           senha \in SenhaInputs :
                            CreateUserApi(c, nome, email, senha)
        \/ Serial(c) /\ \E nome \in NomeInputs, email \in EmailInputs,
                           senha \in SenhaInputs :
                            UsersCreateFromForm(c, nome, email, senha)
        \/ Serial(c) /\ \E q \in QInputs : UsersPage(c, q)
        \/ Serial(c) /\ \E uid \in IdInputs : UsersEditForm(c, uid)
        \/ Serial(c) /\ \E uid \in IdInputs, nome \in NomeInputs,
                           email \in EmailInputs, senha \in SenhaInputs :
                            UsersEditPost(c, uid, nome, email, senha)
        \/ Serial(c) /\ \E uid \in IdInputs : UsersDelete(c, uid)
        \/ Serial(c) /\ DbQuery(c)
        \/ Serial(c) /\ DbExecuteRun(c)
        \/ Serial(c) /\ DbExecuteCommit(c)

Spec == Init /\ [][Next]_vars

\* A table that earlier requests left behind: empty, or one user that
\* POST /users created.
InitConc ==
    /\ \/ table = {} /\ seq = 0 /\ saltCtr = 0
       \/ /\ table = {[id |-> 1, nome |-> <<"a">>, email |-> <<"B">>,
                        senha |-> HashPassword(<<"p">>, 1)]}
          /\ seq = 1
          /\ saltCtr = 1
    /\ hasPool \in BOOLEAN
    /\ started = 0
    /\ everIds = {u.id : u \in table}
    /\ conns = [c \in Clients |-> "none"]
    /\ req = [c \in Clients |-> IdleReq]

\* The server handles the clients' writing requests concurrently.
NextConc ==
    \E c \in Clients :
        \/ Overlap(c) /\ \E email \in RaceEmails, senha \in SenhaInputs :
                            CreateUserApi(c, RaceNome, email, senha)
        \/ Overlap(c) /\ \E email \in RaceEmails, senha \in SenhaInputs :
                            UsersCreateFromForm(c, RaceNome, email, senha)
        \/ Overlap(c) /\ \E uid \in IdInputs, email \in RaceEmails,
                            senha \in SenhaInputs :
                            UsersEditPost(c, uid, RaceNome, email, senha)
        \/ Overlap(c) /\ \E uid \in IdInputs : UsersDelete(c, uid)
        \/ Overlap(c) /\ DbExecuteRun(c)
        \/ Overlap(c) /\ DbExecuteCommit(c)

SpecConc == InitConc /\ [][NextConc]_vars


(* ------------------------------ properties ------------------------------ *)
Done(c) == req[c].pc = "done"

CreateKinds == {"create_user_api", "users_create_from_form"}

Emails(tbl) == {u.email : u \in tbl}
Ids(tbl)    == {u.id : u \in tbl}

\* The name and the email a create or edit request hands to the store.
StoredNome(r) ==
    IF r.kind = "create_user_api" THEN r.nome ELSE Strip(OrEmpty(r.nome))

StoredEmail(r) ==
    IF r.kind = "create_user_api" THEN r.email
    ELSE Lower(Strip(OrEmpty(r.email)))

\* The request passes the handler's check of its mandatory fields.
PassesValidation(r) ==
    /\ StoredNome(r) # None /\ StoredNome(r) # <<>>
    /\ StoredEmail(r) # None /\ StoredEmail(r) # <<>>
    /\ r.kind \in CreateKinds => OrEmpty(r.senha) # <<>>

\* q occurs in s, compared case-insensitively.
Contains(s, q) ==
    \E i \in 1..(Len(s) - Len(q) + 1) :
        Lower(SubSeq(s, i, i + Len(q) - 1)) = Lower(q)

\* C1 as stated: a create request with non-empty name, email and password
\* whose email (as sent) is not stored adds exactly one user, whose id is
\* greater than every id assigned before; checked for requests in which the
\* store raises no connectivity error.
C1_AsStated ==
    \A c \in Clients :
        LET r == req[c] IN
        ( /\ Done(c)
          /\ r.kind \in CreateKinds
          /\ Truthy(r.nome) /\ Truthy(r.email) /\ Truthy(r.senha)
          /\ r.email \notin Emails(r.t0)
          /\ r.raised # "OperationalError" )
        => /\ r.outcome \in {"created201", "flash_created"}
           /\ \E u \in table : /\ u \notin r.t0
                               /\ table = r.t0 \cup {u}
                               /\ \A i \in r.ids0 : i < u.id

\* The state part of C1 as amended.
C1_CreateAdds ==
    \A c \in Clients :
        LET r == req[c] IN
        /\ ( /\ Done(c)
             /\ r.kind \in CreateKinds
             /\ PassesValidation(r)
             /\ StoredEmail(r) \notin Emails(r.t0)
             /\ r.raised # "OperationalError" )
           => /\ r.outcome \in {"created201", "flash_created"}
              /\ \E u \in table :
                    /\ table = r.t0 \cup {u}
                    /\ u.id \notin Ids(r.t0)
                    /\ \A i \in r.ids0 : i < u.id
                    /\ u.nome = StoredNome(r)
                    /\ u.email = StoredEmail(r)
                    /\ u.senha.digest = r.senha
        /\ ( /\ Done(c)
             /\ r.raised = "none"
             /\ \/ r.kind = "list_users_api"
                \/ r.kind = "users_page" /\ Strip(OrEmpty(r.q)) = <<>> )
           => /\ Len(r.rows) = Cardinality(table)
              /\ \A u \in table :
                    \E i \in 1..Len(r.rows) :
                        r.rows[i] = [id |-> u.id, nome |-> u.nome,
                                     email |-> u.email]

\* The step part of C1 as amended: a user leaves the table only by a delete
\* request for its id, and never changes its id.
C1_StaysUntilDeleted ==
    \A u \in table :
        (u.id \notin Ids(table'))
        => \E c \in Clients : /\ req[c].kind = "users_delete"
                              /\ req[c].uid = u.id
                              /\ req'[c].outcome = "flash_deleted"

\* C1 (amended): a create request that passes the handler's validation (the
\* form path trims name and email and lowercases the email before it checks
\* them) and whose email, as the handler stores it, is not stored, adds
\* exactly one user with an id greater than every id a row ever had; the
\* listings return every stored user; a user stays until a delete request
\* removes it.
C1_Theorem == [](C1_CreateAdds) /\ [][C1_StaysUntilDeleted]_vars

\* C1 witness: a user was created and deleted, and a later create request got
\* a fresh id.
C1_Witness ==
    \E c \in Clients :
        /\ Done(c)
        /\ req[c].kind = "users_create_from_form"
        /\ req[c].outcome = "flash_created"
        /\ req[c].t0 = {}
        /\ req[c].ids0 # {}
        /\ req[c].email = <<"B">>

C3_Theorem ==
    \A c \in Clients :
        LET r == req[c] IN
        ( /\ Done(c)
          /\ r.kind = "users_edit_post"
          /\ r.outcome = "flash_updated" )
        => \E old \in r.t0 : \E new \in table :
              /\ old.id = r.uid /\ new.id = r.uid
              /\ table \ {new} = r.t0 \ {old}
              /\ new.nome = Strip(OrEmpty(r.nome))
              /\ new.email = Lower(Strip(OrEmpty(r.email)))
              /\ OrEmpty(r.senha) = <<>> => new.senha = old.senha
              /\ OrEmpty(r.senha) # <<>>
                    => /\ new.senha # old.senha
                       /\ new.senha.digest = r.senha
                       /\ \A u \in r.t0 : u.senha # new.senha

\* C3 witness: an edit without password changed the name and the email of a
\* user and kept the hash.
C3_Witness ==
    \E c \in Clients :
        /\ Done(c)
        /\ req[c].kind = "users_edit_post"
        /\ req[c].outcome = "flash_updated"
        /\ req[c].senha = None
        /\ \E old \in req[c].t0 : \E new \in table :
              /\ old.id = new.id
              /\ old.nome # new.nome
              /\ old.email # new.email
              /\ old.senha = new.senha

\* C4: a delete, or an edit with valid fields, of an id that no user has
\* answers "not found" and leaves the table as it was.
C4_Theorem ==
    \A c \in Clients :
        LET r == req[c] IN
        ( /\ Done(c)
          /\ \/ r.kind = "users_delete"
             \/ r.kind = "users_edit_post" /\ PassesValidation(r)
          /\ r.uid \notin Ids(r.t0) )
        => /\ table = r.t0
           /\ r.raised = "none" => r.outcome = "flash_notfound"

C4_Witness ==
    \E c \in Clients :
        /\ Done(c)
        /\ req[c].kind = "users_edit_post"
        /\ req[c].outcome = "flash_notfound"
        /\ req[c].t0 # {}
        /\ table = req[c].t0

\* C5: GET /users/page returns exactly the users whose name or email contains
\* the trimmed q case-insensitively, each once, by ascending id; all users
\* when q is absent or blank.
C5_Claim ==
    \A c \in Clients :
        LET r == req[c]
            q == Strip(OrEmpty(r.q))
            expected == {u \in r.t0 : \/ q = <<>>
                                       \/ Contains(u.nome, q)
                                       \/ Contains(u.email, q)}
        IN
        ( /\ Done(c)
          /\ r.kind = "users_page"
          /\ r.raised = "none" )
        => /\ Len(r.rows) = Cardinality(expected)
           /\ \A i \in 1..Len(r.rows) :
                 \E u \in expected : r.rows[i] = [id |-> u.id, nome |-> u.nome,
                                                  email |-> u.email]
           /\ \A i, j \in 1..Len(r.rows) : i < j => r.rows[i].id < r.rows[j].id

\* C6: /health answers 200 "ok" only if SELECT 1 ran and returned a row in
\* this request; when the connection or the probe fails it answers 500.
C6_Theorem ==
    \A c \in Clients :
        LET r == req[c] IN
        (Done(c) /\ r.kind = "health")
        => /\ r.outcome \in {"ok200", "error500"}
           /\ r.outcome = "ok200"
                 => r.stmts = 1 /\ r.raised = "none" /\ r.rows = <<[ok |-> 1]>>
           /\ r.raised # "none" => r.outcome = "error500"

\* C6 witness: the connection could not be acquired and /health said 500.
C6_Witness ==
    \E c \in Clients :
        /\ Done(c)
        /\ req[c].kind = "health"
        /\ req[c].raised = "OperationalError"
        /\ req[c].stmts = 0
        /\ req[c].outcome = "error500"

\* C7: a request holds a connection only while db_query / db_execute runs;
\* once the handler has answered, whatever the exit path, it holds none.
C7_Theorem ==
    \A c \in Clients :
        /\ req[c].pc \in {"idle", "done"} => conns[c] = "none"
        /\ req[c].pc \in {"exec", "commit"}
              => conns[c] = IF hasPool THEN "pool" ELSE "direct"

\* C7 witness: conn.commit() raised after the statement had run, and the
\* request holds no connection.
C7_Witness ==
    \E c \in Clients :
        /\ Done(c)
        /\ req[c].stmt.sql = "insert"
        /\ req[c].raised = "OperationalError"
        /\ req[c].rows # <<>>
        /\ conns[c] = "none"

\* C8: when a handler has answered success to a create, edit or delete, the
\* write is committed: the table every later request reads has it. When the
\* statement or the commit raised, nothing was committed and the handler
\* answers with one of its error outcomes.
C8_Theorem ==
    \A c \in Clients :
        LET r == req[c] IN
        (Done(c) /\ r.stmt.sql \in {"insert", "update", "delete"})
        => /\ r.pending.op = "none"
           /\ r.outcome \in {"created201", "flash_created"}
                 => /\ r.committed
                    /\ \E u \in table \ r.t0 : /\ u.id = r.rows[1].id
                                               /\ u.nome = r.stmt.nome
                                               /\ u.email = r.stmt.email
                                               /\ u.senha = r.stmt.senha
           /\ r.outcome = "flash_updated"
                 => /\ r.committed
                    /\ \E u \in table : /\ u.id = r.uid
                                        /\ u.nome = r.stmt.nome
                                        /\ u.email = r.stmt.email
           /\ r.outcome = "flash_deleted"
                 => r.committed /\ r.uid \in Ids(r.t0) /\ r.uid \notin Ids(table)
           /\ r.raised # "none"
                 => /\ ~r.committed
                    /\ table = r.t0
                    /\ r.outcome \in {"conflict409", "flash_conflict",
                                      "error500", "flash_error"}

\* C8 witness: a delete was answered and the row is gone from the table.
C8_Witness ==
    \E c \in Clients :
        /\ Done(c)
        /\ req[c].outcome = "flash_deleted"
        /\ req[c].committed
        /\ table # req[c].t0

\* C9: a create or edit request with a missing or empty mandatory field gets
\* the validation outcome and reaches neither the pool nor the store.
C9_Theorem ==
    \A c \in Clients :
        LET r == req[c]
            missing == \/ ~Truthy(r.nome)
                       \/ ~Truthy(r.email)
                       \/ r.kind \in CreateKinds /\ ~Truthy(r.senha)
        IN
        ( /\ r.kind \in CreateKinds \cup {"users_edit_post"}
          /\ missing )
        => /\ Done(c)
           /\ r.outcome = IF r.kind = "create_user_api"
                          THEN "bad400" ELSE "flash_invalid"
           /\ r.stmts = 0
           /\ r.stmt = NoStmt
           /\ r.raised = "none"
           /\ conns[c] = "none"
           /\ table = r.t0

\* C9 witness: an edit with an empty email on a table that has the user.
C9_Witness ==
    \E c \in Clients :
        /\ Done(c)
        /\ req[c].kind = "users_edit_post"
        /\ req[c].email = <<>>
        /\ req[c].nome = <<"a">>
        /\ req[c].uid \in Ids(table)
        /\ req[c].outcome = "flash_invalid"

\* C10: under every interleaving of concurrent requests no two users have the
\* same email; a request that loses the race gets the conflict outcome and
\* commits nothing.
C10_Theorem ==
    /\ \A u, v \in table : (u.email = v.email \/ u.id = v.id) => u = v
    /\ \A c \in Clients :
          LET r == req[c] IN
          r.raised = "UniqueViolation"
          => /\ Done(c)
             /\ ~r.committed
             /\ r.pending.op = "none"
             /\ conns[c] = "none"
             /\ r.outcome = IF r.kind = "create_user_api"
                            THEN "conflict409" ELSE "flash_conflict"

\* C10 witness: two requests raced for an email that was not stored when
\* either started; one committed it and the other got the conflict.
C10_Witness ==
    \E c, d \in Clients :
        /\ c # d
        /\ Done(c) /\ Done(d)
        /\ req[c].kind = "users_edit_post"
        /\ req[c].outcome = "flash_updated"
        /\ req[d].kind = "create_user_api"
        /\ req[d].outcome = "conflict409"
        /\ req[c].stmt.email = req[d].stmt.email
        /\ req[d].stmt.email \notin Emails(req[d].t0)
        /\ req[c].stmt.email \notin Emails(req[c].t0)

=============================================================================
